---- MODULE Spec2Model ----
(***************************************************************************)
(* Model of whatsapp-bridge/migrations.go: the MigrationManager that       *)
(* discovers versioned SQL files in the migrations directory, reads the    *)
(* applied versions from the migrations table and applies the pending      *)
(* ones in version order.                                                  *)
(*                                                                         *)
(* Every database statement (CREATE TABLE, SELECT, the body Exec, the      *)
(* INSERT) is one step of the model and may fail, as a driver call may.    *)
(* File names are sequences of characters so that SplitN, Atoi and         *)
(* TrimSuffix are computed as the code computes them.                      *)
(***************************************************************************)
EXTENDS Integers, Sequences, FiniteSets, TLC

\* ----------------------------------------------------------------- bounds
\* Most files the migrations directory ever holds.
MaxFiles == 3
\* Most RunMigrations calls in one behaviour.
MaxRuns == 2

\* MigrationManager values sharing the database; Spec drives the first one.
Instances == {1, 2}

\* ------------------------------------------------------------ file names
\* "01_a.sql", "2_b.sql", "3_c_d.sql", "+2_p.sql", "-5_x.sql", "x_e.sql",
\* "ab.sql" and "4_z.txt"
FileUniverse ==
    { <<"0", "1", "_", "a", ".", "s", "q", "l">>,
      <<"2", "_", "b", ".", "s", "q", "l">>,
      <<"3", "_", "c", "_", "d", ".", "s", "q", "l">>,
      <<"+", "2", "_", "p", ".", "s", "q", "l">>,
      <<"-", "5", "_", "x", ".", "s", "q", "l">>,
      <<"x", "_", "e", ".", "s", "q", "l">>,
      <<"a", "b", ".", "s", "q", "l">>,
      <<"4", "_", "z", ".", "t", "x", "t">> }

\* The content of a migration file: one opaque statement text per file.
Content(file) == <<"sql of">> \o file

\* ------------------------------------------------------- string helpers
SqlSuffix == <<".", "s", "q", "l">>

HasSuffix(s, suffix) ==
    /\ Len(s) >= Len(suffix)
    /\ SubSeq(s, Len(s) - Len(suffix) + 1, Len(s)) = suffix

\* strings.TrimSuffix
TrimSuffix(s, suffix) ==
    IF HasSuffix(s, suffix) THEN SubSeq(s, 1, Len(s) - Len(suffix)) ELSE s

\* Position of the first separator in s, 0 when there is none.
IndexOf(s, sep) ==
    IF \E k \in 1..Len(s) : s[k] = sep
    THEN CHOOSE k \in 1..Len(s) :
            /\ s[k] = sep
            /\ \A j \in 1..(k - 1) : s[j] # sep
    ELSE 0

\* strings.SplitN(s, sep, 2): at most two parts, cut at the first separator.
SplitN2(s, sep) ==
    LET k == IndexOf(s, sep)
    IN  IF k = 0 THEN <<s>>
        ELSE <<SubSeq(s, 1, k - 1), SubSeq(s, k + 1, Len(s))>>

DigitVal ==
    [c \in {"0", "1", "2", "3", "4", "5", "6", "7", "8", "9"} |->
        CASE c = "0" -> 0 [] c = "1" -> 1 [] c = "2" -> 2 [] c = "3" -> 3
          [] c = "4" -> 4 [] c = "5" -> 5 [] c = "6" -> 6 [] c = "7" -> 7
          [] c = "8" -> 8 [] c = "9" -> 9]

RECURSIVE DecimalValue(_)
DecimalValue(ds) ==
    IF ds = <<>> THEN 0
    ELSE 10 * DecimalValue(SubSeq(ds, 1, Len(ds) - 1)) + DigitVal[ds[Len(ds)]]

\* strconv.Atoi: an optional sign, then one or more decimal digits.
\* (The prefixes of FileUniverse are far below the int range.)
Atoi(s) ==
    LET signed == s # <<>> /\ s[1] \in {"+", "-"}
        ds     == IF signed THEN SubSeq(s, 2, Len(s)) ELSE s
    IN  IF ds = <<>> \/ \E k \in 1..Len(ds) : ds[k] \notin DOMAIN DigitVal
        THEN [ok |-> FALSE, val |-> 0]
        ELSE [ok |-> TRUE,
              val |-> IF signed /\ s[1] = "-" THEN 0 - DecimalValue(ds)
                      ELSE DecimalValue(ds)]

\* filepath.Glob(migrations/*.sql)
Glob(d) == {file \in d : HasSuffix(file, SqlSuffix)}

\* A file name check that drops the error of Atoi.
Parses_NoAtoiCheck(file) == Len(SplitN2(file, "_")) >= 2

\* The file name check of the LoadMigrations loop: two parts and an integer.
Parses(file) ==
    LET parts == SplitN2(file, "_")
    IN  Len(parts) >= 2 /\ Atoi(parts[1]).ok

\* The Migration value LoadMigrations builds for a file that parses.
MigrationOf(file) ==
    LET parts == SplitN2(file, "_")
    IN  [Version |-> Atoi(parts[1]).val,
         Name    |-> TrimSuffix(parts[2], SqlSuffix),
         SQL     |-> Content(file)]

\* sort.Slice by Version does not promise an order among equal versions:
\* every arrangement of ms that is ascending by Version is a possible result.
IsSortedByVersion(s) ==
    \A a, b \in 1..Len(s) : a < b => s[a].Version <= s[b].Version

\* A load that leaves the migrations in the order they were appended.
UnsortedArrangements(ms) ==
    {s \in [1..Cardinality(ms) -> ms] :
        \A a, b \in 1..Cardinality(ms) : a # b => s[a] # s[b]}

SortedArrangements(ms) ==
    {s \in [1..Cardinality(ms) -> ms] :
        /\ \A a, b \in 1..Cardinality(ms) : a # b => s[a] # s[b]
        /\ IsSortedByVersion(s)}

\* ------------------------------------------------------------------ state
VARIABLES
    dir,          \* the files of the migrations directory
    tableExists,  \* the migrations table has been created
    records,      \* rows of the migrations table
    effects,      \* per file, how often its body was executed successfully
    pc,           \* per instance, where its RunMigrations call stands
    appliedMap,   \* per instance, the versions read by GetAppliedMigrations
    migrations,   \* per instance, the slice LoadMigrations returned
    idx,          \* per instance, position of the range loop in migrations
    appliedCount, \* per instance, the counter of the range loop
    err,          \* per instance, what the call returned ("none" while running)
    runs,         \* RunMigrations calls started so far
    log,          \* per instance, the statements of ApplyMigration issued in this call
    start,        \* per instance, the rows of the table when the call began
    prev          \* the call that returned last, <<>> before the first return

vars == <<dir, tableExists, records, effects, pc, appliedMap, migrations, idx,
          appliedCount, err, runs, log, start, prev>>

dbVars  == <<tableExists, records, effects>>
runVars == <<appliedMap, migrations, idx, appliedCount>>

RecordedVersions == {r.version : r \in records}

Current(i) == migrations[i][idx[i]]

Init ==
    /\ dir \in {d \in SUBSET FileUniverse : Cardinality(d) <= MaxFiles}
    /\ tableExists = FALSE
    /\ records = {}
    /\ effects = [f \in FileUniverse |-> 0]
    /\ pc = [i \in Instances |-> "idle"]
    /\ appliedMap = [i \in Instances |-> {}]
    /\ migrations = [i \in Instances |-> <<>>]
    /\ idx = [i \in Instances |-> 1]
    /\ appliedCount = [i \in Instances |-> 0]
    /\ err = [i \in Instances |-> "none"]
    /\ runs = 0
    /\ log = [i \in Instances |-> <<>>]
    /\ start = [i \in Instances |-> {}]
    /\ prev = <<>>

\* -------------------------------------------------------------- actions
\* A file appears in the migrations directory.  A call reads the directory
\* at one point only (the Glob of LoadMigrations), so a file that appears
\* during a call acts as one that appears before or after it.
AddSource(file) ==
    /\ \A i \in Instances : pc[i] = "idle"
    /\ file \notin dir
    /\ Cardinality(dir) < MaxFiles
    /\ dir' = dir \cup {file}
    /\ UNCHANGED <<dbVars, pc, runVars, err, runs, log, start, prev>>

\* The call of RunMigrations begins.
Enter(i) ==
    /\ pc[i] = "idle"
    /\ runs < MaxRuns
    /\ runs' = runs + 1
    /\ pc' = [pc EXCEPT ![i] = "init"]
    /\ appliedMap' = [appliedMap EXCEPT ![i] = {}]
    /\ migrations' = [migrations EXCEPT ![i] = <<>>]
    /\ idx' = [idx EXCEPT ![i] = 1]
    /\ appliedCount' = [appliedCount EXCEPT ![i] = 0]
    /\ err' = [err EXCEPT ![i] = "none"]
    /\ log' = [log EXCEPT ![i] = <<>>]
    /\ start' = [start EXCEPT ![i] = records]
    /\ UNCHANGED <<dir, dbVars, prev>>

\* RunMigrations returns e.
Returns(i, e) ==
    /\ pc' = [pc EXCEPT ![i] = "done"]
    /\ err' = [err EXCEPT ![i] = e]

\* A CREATE TABLE without IF NOT EXISTS: it fails once the table is there.
InitMigrationTable_NotIdempotent(i) ==
    /\ pc[i] = "init"
    /\ \/ /\ ~tableExists
          /\ tableExists' = TRUE
          /\ pc' = [pc EXCEPT ![i] = "query"]
          /\ UNCHANGED err
       \/ /\ Returns(i, "failed to initialize migration table")
          /\ UNCHANGED tableExists
    /\ UNCHANGED <<dir, records, effects, runVars, runs, log, start, prev>>

\* CREATE TABLE IF NOT EXISTS migrations
InitMigrationTable(i) ==
    /\ pc[i] = "init"
    /\ \/ /\ tableExists' = TRUE
          /\ pc' = [pc EXCEPT ![i] = "query"]
          /\ UNCHANGED err
       \/ /\ Returns(i, "failed to initialize migration table")
          /\ UNCHANGED tableExists
    /\ UNCHANGED <<dir, records, effects, runVars, runs, log, start, prev>>

\* A RunMigrations that notes the error of the query and goes on with an
\* empty map.
GetAppliedMigrations_Continue(i) ==
    /\ pc[i] = "query"
    /\ \/ /\ tableExists
          /\ appliedMap' = [appliedMap EXCEPT ![i] = RecordedVersions]
          /\ UNCHANGED err
       \/ /\ err' = [err EXCEPT ![i] = "failed to get applied migrations"]
          /\ UNCHANGED appliedMap
    /\ pc' = [pc EXCEPT ![i] = "load"]
    /\ UNCHANGED <<dir, dbVars, migrations, idx, appliedCount, runs, log,
                   start, prev>>

\* SELECT version FROM migrations, and the lookup map built from it
GetAppliedMigrations(i) ==
    /\ pc[i] = "query"
    /\ \/ /\ tableExists
          /\ appliedMap' = [appliedMap EXCEPT ![i] = RecordedVersions]
          /\ pc' = [pc EXCEPT ![i] = "load"]
          /\ UNCHANGED err
       \/ /\ Returns(i, "failed to get applied migrations")
          /\ UNCHANGED appliedMap
    /\ UNCHANGED <<dir, dbVars, migrations, idx, appliedCount, runs, log,
                   start, prev>>

\* The files LoadMigrations reads: the globbed ones whose name parses.
Loadable(d) == {file \in Glob(d) : Parses(file)}

\* LoadMigrations: glob, parse the names, read the files, sort by version.
\* Reading any of the files may fail, which fails the call.
LoadMigrations(i) ==
    /\ pc[i] = "load"
    /\ \/ \E s \in SortedArrangements({MigrationOf(file) : file \in Loadable(dir)}) :
            /\ migrations' = [migrations EXCEPT ![i] = s]
            /\ pc' = [pc EXCEPT ![i] = "loop"]
            /\ UNCHANGED err
       \/ /\ Loadable(dir) # {}
          /\ Returns(i, "failed to load migrations")
          /\ UNCHANGED migrations
    /\ UNCHANGED <<dir, dbVars, appliedMap, idx, appliedCount, runs, log,
                   start, prev>>

\* A loop test that asks the table instead of the map read at the start.
IsApplied_Fresh(i, m) == m.Version \in RecordedVersions

\* A loop test that never finds a version in the map.
IsApplied_Never(i, m) == FALSE

\* The test of the range loop: appliedMap[migration.Version]
IsApplied(i, m) == m.Version \in appliedMap[i]

\* A loop that does not move on when it finds the version in the map.
SkipApplied_NoAdvance(i) ==
    /\ pc[i] = "loop"
    /\ idx[i] <= Len(migrations[i])
    /\ IsApplied(i, Current(i))
    /\ UNCHANGED vars

\* The range loop passes over a migration whose version is in the map.
SkipApplied(i) ==
    /\ pc[i] = "loop"
    /\ idx[i] <= Len(migrations[i])
    /\ IsApplied(i, Current(i))
    /\ idx' = [idx EXCEPT ![i] = idx[i] + 1]
    /\ UNCHANGED <<dir, dbVars, pc, appliedMap, migrations, appliedCount, err,
                   runs, log, start, prev>>

\* The file a statement text was read from.
FileOf(sql) == CHOOSE file \in FileUniverse : Content(file) = sql

Event(op, m, ok) == [op |-> op, m |-> m, ok |-> ok]

\* A loop that goes on to the next migration when a body fails.
ExecBody_Continue(i) ==
    /\ pc[i] = "loop"
    /\ idx[i] <= Len(migrations[i])
    /\ ~IsApplied(i, Current(i))
    /\ \/ /\ effects' = [effects EXCEPT ![FileOf(Current(i).SQL)] = @ + 1]
          /\ pc' = [pc EXCEPT ![i] = "insert"]
          /\ log' = [log EXCEPT ![i] = Append(@, Event("exec", Current(i), TRUE))]
          /\ UNCHANGED idx
       \/ /\ idx' = [idx EXCEPT ![i] = @ + 1]
          /\ log' = [log EXCEPT ![i] = Append(@, Event("exec", Current(i), FALSE))]
          /\ UNCHANGED <<effects, pc>>
    /\ UNCHANGED <<dir, tableExists, records, appliedMap, migrations,
                   appliedCount, err, runs, start, prev>>

\* An ApplyMigration that drops the error of the body and records it anyway.
ExecBody_IgnoreError(i) ==
    /\ pc[i] = "loop"
    /\ idx[i] <= Len(migrations[i])
    /\ ~IsApplied(i, Current(i))
    /\ \/ /\ effects' = [effects EXCEPT ![FileOf(Current(i).SQL)] = @ + 1]
          /\ log' = [log EXCEPT ![i] = Append(@, Event("exec", Current(i), TRUE))]
       \/ /\ log' = [log EXCEPT ![i] = Append(@, Event("exec", Current(i), FALSE))]
          /\ UNCHANGED effects
    /\ pc' = [pc EXCEPT ![i] = "insert"]
    /\ UNCHANGED <<dir, tableExists, records, runVars, err, runs, start, prev>>

\* A loop that tries the body of a migration again when it fails.
ExecBody_Retry(i) ==
    /\ pc[i] = "loop"
    /\ idx[i] <= Len(migrations[i])
    /\ ~IsApplied(i, Current(i))
    /\ \/ /\ effects' = [effects EXCEPT ![FileOf(Current(i).SQL)] = @ + 1]
          /\ pc' = [pc EXCEPT ![i] = "insert"]
          /\ log' = [log EXCEPT ![i] = Append(@, Event("exec", Current(i), TRUE))]
       \/ /\ Len(log[i]) < 2 * Len(migrations[i])
          /\ log' = [log EXCEPT ![i] = Append(@, Event("exec", Current(i), FALSE))]
          /\ UNCHANGED <<effects, pc>>
    /\ UNCHANGED <<dir, tableExists, records, runVars, err, runs, start, prev>>

\* ApplyMigration, first statement: mm.db.Exec(migration.SQL)
ExecBody(i) ==
    /\ pc[i] = "loop"
    /\ idx[i] <= Len(migrations[i])
    /\ ~IsApplied(i, Current(i))
    /\ \/ /\ effects' = [effects EXCEPT ![FileOf(Current(i).SQL)] = @ + 1]
          /\ pc' = [pc EXCEPT ![i] = "insert"]
          /\ log' = [log EXCEPT ![i] = Append(@, Event("exec", Current(i), TRUE))]
          /\ UNCHANGED err
       \/ /\ Returns(i, "failed to apply migration")
          /\ log' = [log EXCEPT ![i] = Append(@, Event("exec", Current(i), FALSE))]
          /\ UNCHANGED effects
    /\ UNCHANGED <<dir, tableExists, records, runVars, runs, start, prev>>

\* An INSERT that binds the statement text where the name belongs.
Row_WrongName(m) == [version |-> m.Version, name |-> m.SQL, applied_at |-> runs]

\* The row the INSERT of ApplyMigration adds; applied_at defaults to the
\* time of insertion, counted here in calls begun.
Row(m) == [version |-> m.Version, name |-> m.Name, applied_at |-> runs]

\* A loop that goes on to the next migration when the record cannot be
\* inserted.
InsertRecord_Continue(i) ==
    /\ pc[i] = "insert"
    /\ \/ /\ Current(i).Version \notin RecordedVersions
          /\ records' = records \cup {Row(Current(i))}
          /\ appliedCount' = [appliedCount EXCEPT ![i] = @ + 1]
          /\ log' = [log EXCEPT ![i] = Append(@, Event("insert", Current(i), TRUE))]
       \/ /\ log' = [log EXCEPT ![i] = Append(@, Event("insert", Current(i), FALSE))]
          /\ UNCHANGED <<records, appliedCount>>
    /\ idx' = [idx EXCEPT ![i] = @ + 1]
    /\ pc' = [pc EXCEPT ![i] = "loop"]
    /\ UNCHANGED <<dir, tableExists, effects, appliedMap, migrations, err,
                   runs, start, prev>>

\* A migrations table whose version column is not its primary key.
InsertRecord_NoPrimaryKey(i) ==
    /\ pc[i] = "insert"
    /\ \/ /\ records' = records \cup {Row(Current(i))}
          /\ appliedCount' = [appliedCount EXCEPT ![i] = @ + 1]
          /\ idx' = [idx EXCEPT ![i] = @ + 1]
          /\ pc' = [pc EXCEPT ![i] = "loop"]
          /\ log' = [log EXCEPT ![i] = Append(@, Event("insert", Current(i), TRUE))]
          /\ UNCHANGED err
       \/ /\ Returns(i, "failed to record migration")
          /\ log' = [log EXCEPT ![i] = Append(@, Event("insert", Current(i), FALSE))]
          /\ UNCHANGED <<records, appliedCount, idx>>
    /\ UNCHANGED <<dir, tableExists, effects, appliedMap, migrations, runs,
                   start, prev>>

\* ApplyMigration, second statement: INSERT INTO migrations (version, name).
\* version is the primary key: the insert of a recorded version fails.
InsertRecord(i) ==
    /\ pc[i] = "insert"
    /\ \/ /\ Current(i).Version \notin RecordedVersions
          /\ records' = records \cup {Row(Current(i))}
          /\ appliedCount' = [appliedCount EXCEPT ![i] = @ + 1]
          /\ idx' = [idx EXCEPT ![i] = @ + 1]
          /\ pc' = [pc EXCEPT ![i] = "loop"]
          /\ log' = [log EXCEPT ![i] = Append(@, Event("insert", Current(i), TRUE))]
          /\ UNCHANGED err
       \/ /\ Returns(i, "failed to record migration")
          /\ log' = [log EXCEPT ![i] = Append(@, Event("insert", Current(i), FALSE))]
          /\ UNCHANGED <<records, appliedCount, idx>>
    /\ UNCHANGED <<dir, tableExists, effects, appliedMap, migrations, runs,
                   start, prev>>

\* The range loop is over: RunMigrations returns nil.
Finish(i) ==
    /\ pc[i] = "loop"
    /\ idx[i] > Len(migrations[i])
    /\ Returns(i, "nil")
    /\ UNCHANGED <<dir, dbVars, runVars, runs, log, start, prev>>

\* What is kept of a call that has returned.
Summary(i) ==
    [inst |-> i, err |-> err[i], log |-> log[i], loaded |-> migrations[i],
     dir |-> dir,
     before |-> start[i], after |-> records]

\* The caller has the result; the instance may be called again.
Return(i) ==
    /\ pc[i] = "done"
    /\ pc' = [pc EXCEPT ![i] = "idle"]
    /\ prev' = <<Summary(i)>>
    /\ UNCHANGED <<dir, dbVars, runVars, err, runs, log, start>>

RunMigrations(i) ==
    \/ Enter(i)
    \/ InitMigrationTable(i)
    \/ GetAppliedMigrations(i)
    \/ LoadMigrations(i)
    \/ SkipApplied(i)
    \/ ExecBody(i)
    \/ InsertRecord(i)
    \/ Finish(i)
    \/ Return(i)

\* One MigrationManager, called again and again; files may appear meanwhile.
Next ==
    \/ RunMigrations(1)
    \/ \E file \in FileUniverse : AddSource(file)

Spec == Init /\ [][Next]_vars

\* Two MigrationManagers on the same database and directory, each in its own
\* process that calls RunMigrations once, when it starts: their statements
\* interleave in any order.
FirstCall(i) == pc[i] = "idle" => err[i] = "none"

NextConc ==
    \/ \E i \in Instances : FirstCall(i) /\ RunMigrations(i)
    \/ \E file \in FileUniverse : AddSource(file)

SpecConc == Init /\ [][NextConc]_vars

\* The database and the file system have stopped failing: from the last
\* call of a behaviour on, a statement fails only for what the table holds.
Healthy == runs = MaxRuns

\* A step in which a driver or file system call of instance i fails: the
\* call gets an error that is not the primary key refusing a recorded
\* version.
DriverFailure(i) ==
    /\ err[i] = "none"
    /\ err'[i] \notin {"none", "nil"}
    /\ ~(pc[i] = "insert" /\ Current(i).Version \in RecordedVersions)

\* A step of the one MigrationManager of Spec, without failures of the
\* driver once the database is healthy.
LiveStep(i) == RunMigrations(i) /\ (Healthy => ~DriverFailure(i))

NextLive ==
    \/ LiveStep(1)
    \/ \E file \in FileUniverse : AddSource(file)

\* RunMigrations is straight-line code and a loop over a slice, so a call
\* that can take a step takes it; and the caller calls again and again.
SpecLive == Init /\ [][NextLive]_vars /\ WF_vars(LiveStep(1))

\* ------------------------------------------------- reading the histories
RECURSIVE Filter(_, _)
\* The subsequence of s whose elements are in the set keep.
Filter(s, keep) ==
    IF s = <<>> THEN <<>>
    ELSE IF s[1] \in keep THEN <<s[1]>> \o Filter(Tail(s), keep)
         ELSE Filter(Tail(s), keep)

\* The events of l that are executions of a body, in order.
Execs(l) == Filter(l, {l[k] : k \in {j \in 1..Len(l) : l[j].op = "exec"}})

VersionsOf(rows) == {r.version : r \in rows}

\* The migrations of the slice ms whose version is not among the rows.
PendingIn(ms, rows) ==
    {ms[k] : k \in {j \in 1..Len(ms) : ms[j].Version \notin VersionsOf(rows)}}

\* The last event of a log.
Last(l) == l[Len(l)]

\* In the store rows there is a row of the version and name of m.
Recorded(m, rows) ==
    \E r \in rows : r.version = m.Version /\ r.name = m.Name

\* The calls that are returning: the pairs of an instance at its return
\* and the summary of its call.
Returning == {Summary(i) : i \in {j \in Instances : pc[j] = "done"}}

\* The calls that are returning right after the call prev[1] returned.
\* (Under Spec calls do not overlap: prev[1] is the call before.)
Successive == IF prev = <<>> THEN {} ELSE {<<prev[1], h>> : h \in Returning}

\* C1: the bodies one RunMigrations call executes have strictly ascending
\* versions, whatever the files of the directory are.
C1_StrictlyAscending ==
    \A i \in Instances :
        \A a, b \in 1..Len(Execs(log[i])) :
            a < b => Execs(log[i])[a].m.Version < Execs(log[i])[b].m.Version

C3_AppliesExactlyPending ==
    \A i \in Instances :
        (pc[i] = "done" /\ err[i] = "nil") =>
            LET ex == Execs(log[i])
                pending == {MigrationOf(file) : file \in
                              {g \in Loadable(dir) :
                                 MigrationOf(g).Version \notin VersionsOf(start[i])}}
            IN  /\ {ex[k].m : k \in 1..Len(ex)} = pending
                /\ Len(ex) = Cardinality(pending)
                /\ \A k \in 1..Len(ex) : ex[k].ok
                /\ \A a, b \in 1..Len(ex) :
                       a < b => ex[a].m.Version < ex[b].m.Version

\* Files 01_a, 2_b and 3_c_d with version 2 recorded before the call: the
\* call executed the bodies of 1 and 3, in that order, and returned nil.
C3_Witness ==
    \E i \in Instances :
        /\ pc[i] = "done" /\ err[i] = "nil"
        /\ VersionsOf(start[i]) = {2}
        /\ Len(migrations[i]) = 3
        /\ Len(Execs(log[i])) = 2
        /\ Execs(log[i])[1].m.Version = 1
        /\ Execs(log[i])[2].m.Version = 3

\* The call summarised by h ended on the failed execution of a body.
BodyFailed(h) ==
    /\ h.log # <<>>
    /\ Last(h.log).op = "exec" /\ ~Last(h.log).ok

\* What C4 says of a call h whose body of migration k failed, the table
\* holding rows now: nothing of a version above k was executed or inserted,
\* and every loaded migration below k that was pending was executed and
\* recorded before the failure and its row is in the table.
FailStop(h, rows) ==
    LET k == Last(h.log).m
    IN  /\ h.err = "failed to apply migration"
        /\ \A e \in 1..Len(h.log) : h.log[e].m.Version <= k.Version
        /\ \A m \in PendingIn(h.loaded, h.before) :
               m.Version < k.Version =>
                   /\ \E a, b \in 1..(Len(h.log) - 1) :
                          /\ a < b
                          /\ h.log[a] = Event("exec", m, TRUE)
                          /\ h.log[b] = Event("insert", m, TRUE)
                   /\ Recorded(m, rows)

\* C4: if the execution of the body of migration k fails, the call returns
\* an error, nothing above k is executed or recorded in that call, and the
\* pending migrations below k were executed and recorded before the failure
\* and their rows stay in the table (also after the call has returned).
C4_FailStop ==
    /\ \A i \in Instances :
           BodyFailed([log |-> log[i]]) =>
               /\ pc[i] \in {"done", "idle"}
               /\ FailStop(Summary(i), records)
    /\ \A n \in 1..Len(prev) : BodyFailed(prev[n]) => FailStop(prev[n], records)

\* Files 01_a, 2_b and 3_c_d, none recorded: the body of 1 was executed and
\* recorded, the body of 2 failed and the call has returned its error.
C4_Witness ==
    \E i \in Instances :
        /\ pc[i] = "done" /\ err[i] = "failed to apply migration"
        /\ Len(migrations[i]) = 3 /\ start[i] = {}
        /\ Len(log[i]) = 3
        /\ Last(log[i]).m.Version = 2
        /\ VersionsOf(records) = {1}

\* C5: after a call that returns nil over n loaded migrations that were not
\* recorded when it began, the table has exactly n rows it did not have,
\* one per such migration with its version and name, and the rows it had
\* are unchanged.
C5_ExactlyNewRows ==
    \A i \in Instances :
        (pc[i] = "done" /\ err[i] = "nil") =>
            LET pending == PendingIn(migrations[i], start[i])
                new     == records \ start[i]
            IN  /\ start[i] \subseteq records
                /\ Cardinality(new) = Cardinality(pending)
                /\ \A m \in pending :
                       Cardinality({r \in new : r.version = m.Version
                                                /\ r.name = m.Name}) = 1
                /\ \A r \in new : \E m \in pending :
                       r.version = m.Version /\ r.name = m.Name

\* A call that found one row in the table, added two and returned nil.
C5_Witness ==
    \E i \in Instances :
        /\ pc[i] = "done" /\ err[i] = "nil"
        /\ Cardinality(start[i]) = 1
        /\ Cardinality(records \ start[i]) = 2

\* C6: every row of the table has the version and name of a file of the
\* directory that parses and whose body has been executed without error.
C6_RecordsWereExecuted ==
    \A r \in records :
        \E file \in dir :
            /\ HasSuffix(file, SqlSuffix)
            /\ IndexOf(file, "_") > 0
            /\ Atoi(SubSeq(file, 1, IndexOf(file, "_") - 1)) =
                   [ok |-> TRUE, val |-> r.version]
            /\ TrimSuffix(SubSeq(file, IndexOf(file, "_") + 1, Len(file)),
                          SqlSuffix) = r.name
            /\ effects[file] >= 1

\* One migration is recorded, and the body of another failed in a call that
\* has returned: the second has no row.
C6_Witness ==
    /\ Cardinality(records) = 1
    /\ prev # <<>>
    /\ BodyFailed(prev[1])
    /\ Last(prev[1].log).m.Version \notin VersionsOf(records)
    /\ effects[FileOf(Last(prev[1].log).m.SQL)] = 0

\* C7: once ApplyMigration has returned, with nil or with an error, it is
\* never so that the body of its migration took effect in that call while
\* the table has no row for it.
C7_ApplyAtomic ==
    \A i \in Instances :
        (log[i] # <<>> /\ pc[i] # "insert") =>
            LET m == Last(log[i]).m
            IN  (\E a \in 1..Len(log[i]) : log[i][a] = Event("exec", m, TRUE))
                    => Recorded(m, records)

\* The call summarised by h ended on the failed insert of a record.
RecordFailed(h) ==
    /\ h.log # <<>>
    /\ Last(h.log).op = "insert" /\ ~Last(h.log).ok

\* The call summarised by h got as far as its range loop.
ReachedLoop(h) ==
    h.err \notin {"failed to initialize migration table",
                  "failed to get applied migrations",
                  "failed to load migrations"}

\* A failed statement is the last statement a call issues, and a failed
\* insert, which comes right after the execution of the body, makes the
\* call return the record error.
StopsAtFailure ==
    \A i \in Instances :
        /\ \A a \in 1..(Len(log[i]) - 1) : log[i][a].ok
        /\ RecordFailed([log |-> log[i]]) =>
               /\ pc[i] \in {"done", "idle"}
               /\ err[i] = "failed to record migration"
               /\ Len(log[i]) >= 2
               /\ log[i][Len(log[i]) - 1] = Event("exec", Last(log[i]).m, TRUE)

Malformed(file) ==
    \/ \A k \in 1..Len(file) : file[k] # "_"
    \/ LET prefix == SubSeq(file, 1, IndexOf(file, "_") - 1)
           digits == IF prefix # <<>> /\ prefix[1] \in {"+", "-"}
                     THEN Tail(prefix) ELSE prefix
       IN  \/ digits = <<>>
           \/ \E k \in 1..Len(digits) :
                  digits[k] \notin {"0", "1", "2", "3", "4", "5", "6", "7", "8", "9"}

\* C9: a file whose name has no separator or no integer prefix is skipped
\* without an error: no call loads it, executes its body or inserts a record
\* for it, a load fails only when there is a well-formed file to read, and
\* the well-formed files are all loaded.
C9_MalformedSkipped ==
    /\ \A file \in FileUniverse :
           Malformed(file) =>
               /\ effects[file] = 0
               /\ \A i \in Instances :
                      /\ \A k \in 1..Len(migrations[i]) :
                             migrations[i][k].SQL # Content(file)
                      /\ \A k \in 1..Len(log[i]) :
                             log[i][k].m.SQL # Content(file)
    /\ \A i \in Instances :
           /\ (pc[i] = "done" /\ err[i] = "failed to load migrations") =>
                  \E file \in dir : HasSuffix(file, SqlSuffix) /\ ~Malformed(file)
           /\ pc[i] \in {"loop", "insert"} =>
                  \A file \in dir :
                      (HasSuffix(file, SqlSuffix) /\ ~Malformed(file)) =>
                          \E k \in 1..Len(migrations[i]) :
                              migrations[i][k].SQL = Content(file)

\* The directory holds x_e.sql, ab.sql and 2_b.sql; a call has returned nil
\* with the body of 2_b executed and recorded and the other two untouched.
C9_Witness ==
    \E i \in Instances :
        /\ pc[i] = "done" /\ err[i] = "nil"
        /\ dir = { <<"x", "_", "e", ".", "s", "q", "l">>,
                   <<"a", "b", ".", "s", "q", "l">>,
                   <<"2", "_", "b", ".", "s", "q", "l">> }
        /\ VersionsOf(records) = {2}
        /\ effects[<<"2", "_", "b", ".", "s", "q", "l">>] = 1
        /\ effects[<<"x", "_", "e", ".", "s", "q", "l">>] = 0

\* C10: every migration LoadMigrations returns has a non-negative version
\* and comes from a file whose prefix is an integer without a sign.
C10_NonNegativeVersions ==
    \A i \in Instances :
        \A k \in 1..Len(migrations[i]) :
            /\ migrations[i][k].Version >= 0
            /\ FileOf(migrations[i][k].SQL)[1] \notin {"+", "-"}

\* No two of the rows have the same version.
OneRowPerVersion(rows) ==
    \A r1, r2 \in rows : r1.version = r2.version => r1 = r2

\* C11: the migrations table is append-only with one row per version: no
\* step of any call, successful or failing, removes or changes a row, and no
\* two rows ever have the same version.
C11_AppendOnly ==
    [][ /\ records \subseteq records'
        /\ VersionsOf(records) \subseteq VersionsOf(records')
        /\ OneRowPerVersion(records')
        /\ tableExists => tableExists' ]_vars

\* Two rows are in the table, a call that found one of them has failed on
\* the insert of a version that is recorded, and both rows are still there.
C11_Witness ==
    \E i \in Instances :
        /\ pc[i] = "done" /\ err[i] = "failed to record migration"
        /\ Cardinality(start[i]) = 1
        /\ Cardinality(records) = 2
        /\ Last(log[i]).m.Version \in VersionsOf(records)

\* The errors of the steps before the range loop.
EarlyErrors ==
    {"failed to initialize migration table",
     "failed to get applied migrations",
     "failed to load migrations"}

C13_InitIdempotent ==
    /\ [](\A i \in Instances :
             (pc[i] = "init" /\ tableExists) =>
                 ENABLED (InitMigrationTable(i) /\ pc'[i] = "query"))
    /\ [][\A i \in Instances :
             (pc[i] = "init" /\ pc'[i] # "init") =>
                 /\ records' = records
                 /\ effects' = effects
                 /\ tableExists => tableExists'
                 /\ pc'[i] = "query" => tableExists']_vars

\* The second call has created the table again: the two rows of the first
\* call are there as they were.
C13_Witness ==
    \E i \in Instances :
        /\ pc[i] = "query" /\ tableExists
        /\ Cardinality(start[i]) = 2
        /\ records = start[i]

Executors(file) ==
    {i \in Instances :
        \E a \in 1..Len(log[i]) :
            /\ log[i][a].op = "exec" /\ log[i][a].ok
            /\ log[i][a].m.SQL = Content(file)}

\* C15: two instances that run RunMigrations concurrently can both execute
\* the body of the same migration, and this happens exactly by the race of
\* the claim: a body is executed once per instance that executed it, and an
\* instance executes only bodies whose version was not recorded when it
\* read the applied versions, so a body executed twice was pending in the
\* maps of both.
C15_DoubleApplyByRace ==
    \A file \in FileUniverse :
        /\ effects[file] = Cardinality(Executors(file))
        /\ \A i \in Executors(file) :
               MigrationOf(file).Version \notin appliedMap[i]
        /\ effects[file] = 2 =>
               /\ Executors(file) = Instances
               /\ \A i \in Instances :
                      MigrationOf(file).Version \notin appliedMap[i]

\* Both instances have executed the body of 2_b.sql in calls that overlap,
\* before either has recorded it.
C15_Witness ==
    /\ effects[<<"2", "_", "b", ".", "s", "q", "l">>] = 2
    /\ \A i \in Instances : pc[i] = "insert" /\ Current(i).Version = 2
    /\ records = {}

\* The positions of the log of instance i that are inserts of version v.
InsertsOf(i, v) ==
    {a \in 1..Len(log[i]) : log[i][a].op = "insert" /\ log[i][a].m.Version = v}

\* C17: with two concurrent instances the table has one row per version in
\* every interleaving, at most one insert of a version succeeds, and an
\* instance whose insert of a version fails has executed the body with
\* success right before, returns the record error and issues no further
\* statement.
C17_SecondInsertFails ==
    /\ OneRowPerVersion(records)
    /\ \A v \in VersionsOf(records) :
           Cardinality({i \in Instances :
                          \E a \in InsertsOf(i, v) : log[i][a].ok}) = 1
    /\ \A i \in Instances :
           \A a \in 1..Len(log[i]) :
               (log[i][a].op = "insert" /\ ~log[i][a].ok) =>
                   /\ a = Len(log[i])
                   /\ a >= 2
                   /\ log[i][a - 1] = Event("exec", log[i][a].m, TRUE)
                   /\ pc[i] \in {"done", "idle"}
                   /\ err[i] = "failed to record migration"
    /\ \A i \in Instances :
           (pc[i] = "insert" /\ Current(i).Version \in RecordedVersions) =>
               ~ENABLED (InsertRecord(i) /\ pc'[i] = "loop")

\* Both instances executed the body of 01_a.sql; the first recorded it and
\* went on, the insert of the second failed on the recorded version and
\* its call returned the error with 2_b.sql still pending.
C17_Witness ==
    \E i, j \in Instances :
        /\ i # j
        /\ pc[i] = "done" /\ err[i] = "failed to record migration"
        /\ Len(log[i]) = 2 /\ log[i][1].ok
        /\ Last(log[i]).m.Version = 1
        /\ Len(migrations[i]) = 2 /\ idx[i] = 1
        /\ \E a \in InsertsOf(j, 1) : log[j][a].ok
        /\ VersionsOf(records) = {1, 2}
        /\ effects[<<"0", "1", "_", "a", ".", "s", "q", "l">>] = 2
        /\ effects[<<"2", "_", "b", ".", "s", "q", "l">>] = 1

\* The positions a of the slice ms such that ms[a] and ms[a + 1] have the
\* same version, which no earlier migration has and which is not among the
\* rows: the first two of the files of an unrecorded duplicate version.
DuplicatePairs(ms, rows) ==
    {a \in 1..(Len(ms) - 1) :
        /\ ms[a].Version = ms[a + 1].Version
        /\ ms[a].Version \notin VersionsOf(rows)
        /\ \A b \in 1..(a - 1) : ms[b].Version # ms[a].Version}

\* C16: the applied versions are read once, at the start of the call, and
\* LoadMigrations keeps files of equal version.  So a call over two files
\* of an unrecorded version never returns nil, and once it has executed
\* and recorded the first of them it executes the body of the second too;
\* when that succeeds, the insert fails on the recorded version and is the
\* last statement of the call, which returns the record error with the
\* body of the second in effect, no row of its name, and nothing of a
\* higher version attempted.
C16_DuplicateVersionRun ==
    \A i \in Instances :
        /\ (pc[i] \in {"loop", "insert", "done"} /\ err[i] \notin EarlyErrors) =>
               /\ appliedMap[i] = VersionsOf(start[i])
               /\ {migrations[i][k] : k \in 1..Len(migrations[i])} =
                      {MigrationOf(file) : file \in Loadable(dir)}
        /\ pc[i] = "done" =>
               \A a \in DuplicatePairs(migrations[i], start[i]) :
                   LET m1 == migrations[i][a]
                       m2 == migrations[i][a + 1]
                       l  == log[i]
                   IN  /\ err[i] # "nil"
                       /\ \A k \in 1..Len(l) : l[k].m.Version <= m1.Version
                       /\ \A k \in 1..Len(l) :
                              l[k] = Event("insert", m1, TRUE) =>
                                  /\ Len(l) > k
                                  /\ l[k + 1].op = "exec" /\ l[k + 1].m = m2
                                  /\ l[k + 1].ok =>
                                         /\ Len(l) = k + 2
                                         /\ l[k + 2] = Event("insert", m2, FALSE)
                                         /\ err[i] = "failed to record migration"
                                         /\ effects[FileOf(m2.SQL)] >= 1
                                         /\ Recorded(m1, records)
                                         /\ ~Recorded(m2, records)

\* 2_b.sql, +2_p.sql and 3_c_d.sql on an empty table: one of the first two
\* was executed and recorded, the body of the other was executed and its
\* insert failed; the call has returned and 3_c_d.sql was not attempted.
C16_Witness ==
    \E i \in Instances :
        /\ pc[i] = "done" /\ err[i] = "failed to record migration"
        /\ start[i] = {}
        /\ Len(migrations[i]) = 3 /\ migrations[i][3].Version = 3
        /\ DuplicatePairs(migrations[i], start[i]) = {1}
        /\ Len(log[i]) = 4
        /\ Last(log[i]) = Event("insert", migrations[i][2], FALSE)
        /\ effects[FileOf(migrations[i][2].SQL)] = 1
        /\ Cardinality(records) = 1

\* The files of d that are loaded have pairwise distinct versions.
DistinctVersions(d) ==
    \A f, g \in Loadable(d) :
        MigrationOf(f).Version = MigrationOf(g).Version => f = g

\* Every file of d that is loaded has its row among rows.
AllRecorded(d, rows) ==
    \A f \in Loadable(d) : Recorded(MigrationOf(f), rows)

\* C18: every call of RunMigrations returns; a call made once the database
\* has stopped failing, over files of distinct versions, returns nil with
\* every loaded migration recorded; and a call made then on a table that
\* has them all recorded executes no body and returns nil.
C18_TerminatesAndConverges ==
    /\ (pc[1] = "init") ~> (pc[1] = "done")
    /\ [](\A i \in Instances :
             (Healthy /\ pc[i] = "done") =>
                 /\ DistinctVersions(dir) =>
                        (err[i] = "nil" /\ AllRecorded(dir, records))
                 /\ AllRecorded(dir, start[i]) =>
                        (err[i] = "nil" /\ log[i] = <<>> /\ records = start[i]))

\* The first call recorded one of three migrations and failed on the insert
\* of the second; the next call, on the healthy database, executed the two
\* that were left and returned nil with all three recorded.
C18_Witness ==
    \E p \in Successive :
        /\ Healthy
        /\ p[1].err = "failed to record migration" /\ Cardinality(p[1].after) = 1
        /\ p[2].dir = p[1].dir /\ DistinctVersions(p[2].dir)
        /\ p[2].err = "nil" /\ Len(Execs(p[2].log)) = 2
        /\ Cardinality(Loadable(p[2].dir)) = 3
        /\ AllRecorded(p[2].dir, p[2].after)

\* The first call returned nil with two migrations recorded; the next call,
\* over the same files, has gone through its loop and executed nothing.
C18_StableWitness ==
    \E p \in Successive :
        /\ Healthy
        /\ p[1].err = "nil" /\ Cardinality(p[1].after) = 2
        /\ p[2].dir = p[1].dir
        /\ p[2].err = "nil" /\ p[2].log = <<>> /\ Len(p[2].loaded) = 2

====
